---- MODULE Spec2Model ----
(***************************************************************************)
(* Model of bayes.inference_problem (InferenceProblem,                     *)
(* VariationalBayesProblem) and bayes.noise (SingleSensorNoise,            *)
(* UncorrelatedNoiseTerm, UncorrelatedSensorNoise).                        *)
(*                                                                         *)
(* Python containers are modelled as follows.                              *)
(*   OrderedDict / dict : a sequence of <<key, value>> pairs in insertion  *)
(*                        order (Has, Get, Put).                           *)
(*   numpy 1-D array    : a sequence of integers.                          *)
(*   numpy 2-D array    : a sequence of rows, each a sequence of integers. *)
(*   parameter value    : a sequence of integers of the parameter's        *)
(*                        dimension (a scalar is a sequence of length 1).  *)
(*   index ranges       : 0-based, as in the source; v[i] is At(v, i).     *)
(***************************************************************************)
EXTENDS Integers, Sequences, FiniteSets, TLC

VARIABLES
    latent,        \* InferenceProblem.latent: sequence of [name, N, links]
    plist,         \* the parameter_list of every model error: owner -> name -> value
    model_errors,  \* InferenceProblem.model_errors (OrderedDict)
    noise_models,  \* InferenceProblem.noise_models (OrderedDict)
    prm_prior,     \* VariationalBayesProblem.prm_prior (dict)
    noise_prior,   \* VariationalBayesProblem.noise_prior (dict)
    nreg,          \* number of successful registration calls so far
    out,           \* what the last call returned or raised
    conc,          \* SpecConc: problem instances and the threads evaluating them
    vb             \* SpecVB: the state of VariationalBayesProblem.run()

vars == <<latent, plist, model_errors, noise_models, prm_prior, noise_prior, nreg, out, conc, vb>>

----------------------------------------------------------------------------
(* Bounds of the model *)

MaxCalls == 3       \* successful latent registration calls
MaxDim == 4         \* length of the global vector
MaxModels == 2      \* entries of each registry in SpecKeys

----------------------------------------------------------------------------
(* Python dict / OrderedDict *)

Keys(d) == [i \in 1..Len(d) |-> d[i][1]]

Has(d, k) == \E i \in 1..Len(d) : d[i][1] = k

Get(d, k) == d[CHOOSE i \in 1..Len(d) : d[i][1] = k][2]

Put(d, k, x) ==
    IF Has(d, k)
    THEN [i \in 1..Len(d) |-> IF d[i][1] = k THEN <<k, x>> ELSE d[i]]
    ELSE Append(d, <<k, x>>)

\* a plain dict that is only read by key: a function on its set of keys
EmptyDict == [k \in {} |-> <<>>]

DictHas(f, k) == k \in DOMAIN f

DictPut(f, k, x) == [n \in DOMAIN f \cup {k} |-> IF n = k THEN x ELSE f[n]]

RECURSIVE Concat(_)
Concat(ss) == IF ss = <<>> THEN <<>> ELSE Head(ss) \o Concat(Tail(ss))

RECURSIVE SumSeq(_)
SumSeq(s) == IF s = <<>> THEN 0 ELSE Head(s) + SumSeq(Tail(s))

At(v, i) == v[i + 1]

----------------------------------------------------------------------------
(* The model errors of the problem: two linear models, as in                *)
(* tests/test_multiple_models.py, the second with an extra vector-valued    *)
(* parameter V.  Each owns a parameter_list.                                *)

Owners == {"me1", "me2"}

Names(o) == IF o = "me1" THEN <<"A", "B">> ELSE <<"A", "B", "V">>

Dim(l) == IF l = "V" THEN 2 ELSE 1

Defined(o, l) == \E i \in 1..Len(Names(o)) : Names(o)[i] = l

InitValue(l) == [j \in 1..Dim(l) |-> 0]

InitPlist == [o \in Owners |-> [l \in {Names(o)[i] : i \in 1..Len(Names(o))} |-> InitValue(l)]]

Sensors(o) == IF o = "me1" THEN <<"s1">> ELSE <<"s1", "s2">>

Xs(s) == IF s = "s1" THEN <<1, 2>> ELSE <<3>>

Data(o, s) == IF o = "me1" THEN <<10, 20>> ELSE IF s = "s1" THEN <<30, 40>> ELSE <<50>>

\* d forward / d l[j] at data point i: A multiplies xs, B is the offset,
\* V[1] multiplies xs and V[2] multiplies xs squared.
Coef(l, j, x) == IF l = "A" THEN x ELSE IF l = "B" THEN 1 ELSE IF j = 1 THEN 2 * x ELSE x * x

Forward(o, s, prm, i) ==
    SumSeq([k \in 1..Len(Names(o)) |->
        SumSeq([j \in 1..Dim(Names(o)[k]) |->
            prm[Names(o)[k]][j] * Coef(Names(o)[k], j, Xs(s)[i])])])

\* ModelError.__call__: {sensor: forward - data}, reading the owner's parameter_list
ModelErrorCall(o, pl) ==
    [k \in 1..Len(Sensors(o)) |->
        <<Sensors(o)[k],
          [i \in 1..Len(Xs(Sensors(o)[k])) |->
              Forward(o, Sensors(o)[k], pl[o], i) - Data(o, Sensors(o)[k])[i]]>>]

----------------------------------------------------------------------------
(* LatentParameters *)

LatentHas(lat, g) == \E i \in 1..Len(lat) : lat[i].name = g

LatentIdx(lat, g) == CHOOSE i \in 1..Len(lat) : lat[i].name = g

total_dim(lat) == SumSeq([i \in 1..Len(lat) |-> lat[i].N])

HasLink(lp, o, l) == \E i \in 1..Len(lp.links) : lp.links[i] = <<o, l>>

\* latent[g].add(parameter_list of o, l)
CanAdd(lat, g, o, l) ==
    /\ Defined(o, l)
    /\ LatentHas(lat, g) =>
        /\ lat[LatentIdx(lat, g)].N = Dim(l)
        /\ ~HasLink(lat[LatentIdx(lat, g)], o, l)

add(lat, g, o, l) ==
    IF LatentHas(lat, g)
    THEN [lat EXCEPT ![LatentIdx(lat, g)].links = Append(@, <<o, l>>)]
    ELSE Append(lat, [name |-> g, N |-> Dim(l), links |-> <<<<o, l>>>>])

\* mutant of start_idx: counts the parameters registered before g, not their dimensions
start_idx_by_position(lat, g) == LatentIdx(lat, g) - 1

start_idx(lat, g) == SumSeq([i \in 1..(LatentIdx(lat, g) - 1) |-> lat[i].N])

\* the 0-based global indices of latent parameter g, in order
global_index_range(lat, g) ==
    [j \in 1..lat[LatentIdx(lat, g)].N |-> start_idx(lat, g) + j - 1]

RECURSIVE update_links(_, _, _)
update_links(links, value, pl) ==
    IF links = <<>> THEN pl
    ELSE update_links(Tail(links), value,
                      [pl EXCEPT ![Head(links)[1]][Head(links)[2]] = value])

RECURSIVE update_from(_, _, _, _)
update_from(lat, k, v, pl) ==
    IF k > Len(lat) THEN pl
    ELSE update_from(lat, k + 1, v,
            update_links(lat[k].links,
                         [j \in 1..lat[k].N |-> At(v, global_index_range(lat, lat[k].name)[j])],
                         pl))

\* LatentParameters.update(number_vector); requires Len(v) = total_dim(lat)
update(lat, v, pl) == update_from(lat, 1, v, pl)

\* LatentParameters.latent_names(parameter_list of o): (local, global) pairs
latent_names(lat, o) ==
    Concat([k \in 1..Len(lat) |->
        Concat([i \in 1..Len(lat[k].links) |->
            IF lat[k].links[i][1] = o THEN <<<<lat[k].links[i][2], lat[k].name>>>> ELSE <<>>])])

----------------------------------------------------------------------------
(* Keys.  Python keys of mixed type are written as strings: the integer n   *)
(* is IntKey(n), the f-string "noise<n>" is NoiseKey(n), None is "None".    *)

IntKey(n) == <<"int:0", "int:1", "int:2", "int:3", "int:4">>[n + 1]

NoiseKey(n) == <<"noise0", "noise1", "noise2", "noise3", "noise4">>[n + 1]

\* what Python's `or` treats as false among the keys: None, 0 and ""
Falsy(k) == k \in {"None", "int:0", ""}

----------------------------------------------------------------------------
(* InferenceProblem: registries *)

model_error_key(mes, key) == IF Falsy(key) THEN IntKey(Len(mes)) ELSE key

noise_model_key(nms, key) == IF Falsy(key) THEN NoiseKey(Len(nms)) ELSE key

\* mutant of key_is_free: the assert is not evaluated
key_is_free_unchecked(d, key) == TRUE

\* the assert of add_model_error / add_noise_model
key_is_free(d, key) == ~Has(d, key)

\* self.model_errors[key] = model_error / self.noise_models[key] = noise_model
registry_insert(d, key, obj) == Put(d, key, obj)

\* add_model_error(model_error, key): [ok, key, registry after the call]
add_model_error(mes, me, key) ==
    LET k == model_error_key(mes, key) IN
    IF key_is_free(mes, k)
    THEN [ok |-> TRUE, key |-> k, reg |-> registry_insert(mes, k, me)]
    ELSE [ok |-> FALSE, key |-> k, reg |-> mes]

add_noise_model(nms, nm, key) ==
    LET k == noise_model_key(nms, key) IN
    IF key_is_free(nms, k)
    THEN [ok |-> TRUE, key |-> k, reg |-> registry_insert(nms, k, nm)]
    ELSE [ok |-> FALSE, key |-> k, reg |-> nms]

\* define_shared_latent_parameter_by_name(name): links every registered model
\* error that defines `name`, in registration order; stops at the first add
\* that fails.
RECURSIVE define_shared_from(_, _, _, _)
define_shared_from(lat, mes, k, name) ==
    IF k > Len(mes) THEN [ok |-> TRUE, lat |-> lat]
    ELSE IF ~Defined(mes[k][2], name) THEN define_shared_from(lat, mes, k + 1, name)
    ELSE IF ~CanAdd(lat, name, mes[k][2], name) THEN [ok |-> FALSE, lat |-> lat]
    ELSE define_shared_from(add(lat, name, mes[k][2], name), mes, k + 1, name)

define_shared_latent_parameter_by_name(lat, mes, name) == define_shared_from(lat, mes, 1, name)

----------------------------------------------------------------------------
(* InferenceProblem: evaluation *)

\* mutant of push_vector: the evaluation reads the parameters as they are
push_nothing(lat, v, pl) == pl

\* self.latent.update(number_vector), first statement of __call__, loglike
\* and jacobian
push_vector(lat, v, pl) == update(lat, v, pl)

\* mutant of evaluate_model_errors: every key gets the first model error's result
evaluate_first_model_error(mes, pl) ==
    [i \in 1..Len(mes) |-> <<mes[i][1], ModelErrorCall(mes[1][2], pl)>>]

\* for key, me in self.model_errors.items(): result[key] = me()
evaluate_model_errors(mes, pl) ==
    [i \in 1..Len(mes) |-> <<mes[i][1], ModelErrorCall(mes[i][2], pl)>>]

\* InferenceProblem.__call__(number_vector): [pl, result]
InferenceProblem_call(lat, mes, v, pl) ==
    LET pl2 == push_vector(lat, v, pl) IN
    [pl |-> pl2, result |-> evaluate_model_errors(mes, pl2)]

----------------------------------------------------------------------------
(* Noise models (bayes/noise.py).  A noise model object is a record         *)
(* [kind, terms, sensors]: `terms` is UncorrelatedNoiseTerm.terms, a        *)
(* sequence of <<sensor, key>>; `sensors` is UncorrelatedSensorNoise.sensors.*)

SingleSensorNoise == [kind |-> "SingleSensorNoise", terms |-> <<>>, sensors |-> {}]

UncorrelatedNoiseTerm(terms) == [kind |-> "UncorrelatedNoiseTerm", terms |-> terms, sensors |-> {}]

UncorrelatedSensorNoise(sensors) == [kind |-> "UncorrelatedSensorNoise", terms |-> <<>>, sensors |-> sensors]

\* Every (key, sensor, value) of a nested dict {key: {sensor: value}}, in the
\* order of the two nested loops `for exp in d.values(): for s in exp.values()`
all_terms(d) ==
    Concat([i \in 1..Len(d) |->
        [k \in 1..Len(d[i][2]) |-> [key |-> d[i][1], sensor |-> d[i][2][k][1], val |-> d[i][2][k][2]]]])

\* SingleSensorNoise: the list vector_terms / jacobian_terms
single_sensor_terms(d) == [ok |-> all_terms(d) # <<>>, err |-> "ValueError", terms |-> all_terms(d)]

\* UncorrelatedNoiseTerm: d[key][sensor] for (sensor, key) in self.terms
noise_term_terms(nm, d) ==
    IF \E i \in 1..Len(nm.terms) :
          ~Has(d, nm.terms[i][2]) \/ ~Has(Get(d, nm.terms[i][2]), nm.terms[i][1])
    THEN [ok |-> FALSE, err |-> "KeyError", terms |-> <<>>]
    ELSE [ok |-> nm.terms # <<>>, err |-> "ValueError",
          terms |-> [i \in 1..Len(nm.terms) |->
                        [key |-> nm.terms[i][2], sensor |-> nm.terms[i][1],
                         val |-> Get(Get(d, nm.terms[i][2]), nm.terms[i][1])]]]

\* UncorrelatedSensorNoise: every sensor of every model error that is in self.sensors
sensor_noise_terms(nm, d) ==
    LET sel == SelectSeq(all_terms(d), LAMBDA t : t.sensor \in nm.sensors) IN
    [ok |-> sel # <<>>, err |-> "RuntimeError", terms |-> sel]

\* vector_contribution(model_error_dict): the terms collected, before np.concatenate
vector_terms(nm, d) ==
    IF nm.kind = "SingleSensorNoise" THEN single_sensor_terms(d)
    ELSE IF nm.kind = "UncorrelatedNoiseTerm" THEN noise_term_terms(nm, d)
    ELSE sensor_noise_terms(nm, d)

\* jacobian_contribution(jacobian_dict): the terms collected, before np.vstack.
\* UncorrelatedSensorNoise defines no jacobian_contribution.
jacobian_terms(nm, d) ==
    IF nm.kind = "SingleSensorNoise" THEN single_sensor_terms(d)
    ELSE IF nm.kind = "UncorrelatedNoiseTerm" THEN noise_term_terms(nm, d)
    ELSE [ok |-> FALSE, err |-> "AttributeError", terms |-> <<>>]

\* np.concatenate of 1-D arrays and np.vstack of 2-D arrays: both join rows
stack(terms) == Concat([i \in 1..Len(terms) |-> terms[i].val])

\* {noise_key: contribution} over self.noise_models.items(); the first failure raises
RECURSIVE by_noise(_, _, _, _)
by_noise(nms, k, d, jac) ==
    IF k > Len(nms) THEN [ok |-> TRUE, err |-> "", value |-> <<>>, terms |-> <<>>]
    ELSE LET t == IF jac THEN jacobian_terms(nms[k][2], d) ELSE vector_terms(nms[k][2], d) IN
         IF ~t.ok THEN [ok |-> FALSE, err |-> t.err, value |-> <<>>, terms |-> <<>>]
         ELSE LET rest == by_noise(nms, k + 1, d, jac) IN
              IF ~rest.ok THEN rest
              ELSE [ok |-> TRUE, err |-> "",
                    value |-> <<<<nms[k][1], stack(t.terms)>>>> \o rest.value,
                    terms |-> <<<<nms[k][1], [i \in 1..Len(t.terms) |->
                                   <<t.terms[i].key, t.terms[i].sensor, Len(t.terms[i].val)>>]>>>>
                              \o rest.terms]

----------------------------------------------------------------------------
(* ModelErrorInterface.jacobian *)

\* d_model_error_d_named_parameter(me, l)[sensor]: a 2-D array of shape
\* (rows, Dim(l)), or, for a scalar parameter and rank1, a 1-D array of
\* length rows.  An array is a record [rank, data].
d_model_error_d_named_parameter(o, l, s, rank1) ==
    IF rank1 /\ Dim(l) = 1
    THEN [rank |-> 1, data |-> [i \in 1..Len(Xs(s)) |-> Coef(l, 1, Xs(s)[i])]]
    ELSE [rank |-> 2, data |-> [i \in 1..Len(Xs(s)) |-> [j \in 1..Dim(l) |-> Coef(l, j, Xs(s)[i])]]]

RECURSIVE parameter_jac(_, _, _, _)
parameter_jac(o, names, s, rank1) ==
    IF names = <<>> THEN <<>>
    ELSE Put(parameter_jac(o, SubSeq(names, 1, Len(names) - 1), s, rank1),
             names[Len(names)],
             d_model_error_d_named_parameter(o, names[Len(names)], s, rank1))

\* me.jacobian(latent_names): {sensor: {parameter: array}};
\* `latent_names or self.parameter_list.names`
me_jacobian(o, latent_names_, rank1) ==
    LET names == IF latent_names_ = <<>> THEN Names(o) ELSE latent_names_ IN
    [k \in 1..Len(Sensors(o)) |->
        <<Sensors(o)[k], parameter_jac(o, names, Sensors(o)[k], rank1)>>]

----------------------------------------------------------------------------
(* VariationalBayesProblem.jacobian *)

\* mutant of zeros: the matrix is not cleared (np.ones)
zeros_as_ones(N, M) == [i \in 1..N |-> [j \in 1..M |-> 1]]

\* np.zeros((N, M))
zeros(N, M) == [i \in 1..N |-> [j \in 1..M |-> 0]]

\* if len(J.shape) == 1: J = np.atleast_2d(J).T
promote(J) == IF J.rank = 1 THEN [i \in 1..Len(J.data) |-> <<J.data[i]>>] ELSE J.data

\* 1-based position of column c in the index list idx, 0 when absent
ColPos(idx, c) == IF \E j \in 1..Len(idx) : idx[j] = c
                  THEN CHOOSE j \in 1..Len(idx) : idx[j] = c ELSE 0

\* stacked_jac[:, idx] = -J   (a single column of J is broadcast over idx)
assign_columns(stacked, idx, J) ==
    [i \in 1..Len(stacked) |->
        [c \in 1..Len(stacked[i]) |->
            IF ColPos(idx, c - 1) = 0 THEN stacked[i][c]
            ELSE -J[i][IF Len(J[i]) = 1 THEN 1 ELSE ColPos(idx, c - 1)]]]

\* for (local_name, global_name) in latent_names: ... from pair k on
RECURSIVE stack_from(_, _, _, _, _)
stack_from(lat, pairs, k, pjac, stacked) ==
    IF k > Len(pairs) THEN stacked
    ELSE stack_from(lat, pairs, k + 1, pjac,
            assign_columns(stacked, global_index_range(lat, pairs[k][2]),
                           promote(Get(pjac, pairs[k][1]))))

\* the body of `for sensor, parameter_jac in sensor_parameter_jac.items()`
stacked_jac(lat, o, pjac, v) ==
    LET first_jac == pjac[1][2]
        N == Len(first_jac.data)
    IN stack_from(lat, latent_names(lat, o), 1, pjac, zeros(N, Len(v)))

\* the body of `for key, me in self.model_errors.items()`: sensor_jac
sensor_jac(lat, o, v, rank1) ==
    LET pairs == latent_names(lat, o)
        local_latent_names == [i \in 1..Len(pairs) |-> pairs[i][1]]
        spj == me_jacobian(o, local_latent_names, rank1)
    IN [k \in 1..Len(spj) |-> <<spj[k][1], stacked_jac(lat, o, spj[k][2], v)>>]

\* VariationalBayesProblem.jacobian(number_vector): [pl, ok, err, per_model, value, terms]
VB_jacobian(lat, mes, nms, v, pl, rank1) ==
    LET pl2 == push_vector(lat, v, pl)
        jac == [i \in 1..Len(mes) |-> <<mes[i][1], sensor_jac(lat, mes[i][2], v, rank1)>>]
        jbn == by_noise(nms, 1, jac, TRUE)
    IN [pl |-> pl2, ok |-> jbn.ok, err |-> jbn.err, per_model |-> jac,
        value |-> jbn.value, terms |-> jbn.terms]

\* VariationalBayesProblem.__call__(number_vector)
VB_call(lat, mes, nms, v, pl) ==
    LET me == InferenceProblem_call(lat, mes, v, pl)
        ebn == by_noise(nms, 1, me.result, FALSE)
    IN [pl |-> me.pl, ok |-> ebn.ok, err |-> ebn.err, per_model |-> me.result,
        value |-> ebn.value, terms |-> ebn.terms]

\* noise_term.loglike_contribution(raw_me): SingleSensorNoise inherits the
\* interface's, which raises NotImplementedError; the others return
\* _loglike_term(error, sigma), kept here as its two arguments.
loglike_contribution(nm, d) ==
    IF nm.kind = "SingleSensorNoise"
    THEN [ok |-> FALSE, err |-> "NotImplementedError", value |-> <<>>]
    ELSE LET t == vector_terms(nm, d) IN
         IF ~t.ok THEN [ok |-> FALSE, err |-> t.err, value |-> <<>>]
         ELSE [ok |-> TRUE, err |-> "", value |-> <<stack(t.terms), "precision">>]

RECURSIVE loglike_sum(_, _, _)
loglike_sum(nms, k, d) ==
    IF k > Len(nms) THEN [ok |-> TRUE, err |-> "", value |-> <<>>]
    ELSE LET c == loglike_contribution(nms[k][2], d) IN
         IF ~c.ok THEN c
         ELSE LET rest == loglike_sum(nms, k + 1, d) IN
              IF ~rest.ok THEN rest
              ELSE [ok |-> TRUE, err |-> "", value |-> <<c.value>> \o rest.value]

\* InferenceProblem.loglike(number_vector)
loglike(lat, mes, nms, v, pl) ==
    LET pl2 == push_vector(lat, v, pl)
        raw_me == evaluate_model_errors(mes, pl2)
        ll == loglike_sum(nms, 1, raw_me)
    IN [pl |-> pl2, ok |-> ll.ok, err |-> ll.err, per_model |-> raw_me,
        value |-> ll.value, terms |-> <<>>]

----------------------------------------------------------------------------
(* The problem under evaluation: both model errors registered with          *)
(* automatic keys, and one of a few sets of noise models.                   *)

RECURSIVE add_all_model_errors(_, _)
add_all_model_errors(mes, objs) ==
    IF objs = <<>> THEN mes
    ELSE add_all_model_errors(add_model_error(mes, Head(objs), "None").reg, Tail(objs))

RECURSIVE add_all_noise_models(_, _)
add_all_noise_models(nms, objs) ==
    IF objs = <<>> THEN nms
    ELSE add_all_noise_models(add_noise_model(nms, Head(objs), "None").reg, Tail(objs))

BothModelErrors == add_all_model_errors(<<>>, <<"me1", "me2">>)

NoiseSets ==
    { <<SingleSensorNoise, UncorrelatedNoiseTerm(<<<<"s2", IntKey(1)>>, <<"s1", IntKey(0)>>>>)>>,
      <<UncorrelatedNoiseTerm(<<<<"s1", IntKey(1)>>>>), UncorrelatedSensorNoise({"s1"})>> }

GlobalNames == {"B1", "B2"}

LocalNames == {"A", "B", "V"}

\* the vectors evaluated: two of the right length with pairwise distinct
\* entries, and one that is too long
VecA(n) == [i \in 1..n |-> i]

VecB(n) == [i \in 1..n |-> 10 - i]

TestVectors(n) == {VecA(n), VecB(n), VecA(n + 1)}

NoOut == [op |-> "none", ok |-> TRUE, err |-> "", v |-> <<>>, rank1 |-> FALSE,
          per_model |-> <<>>, value |-> <<>>, terms |-> <<>>]

Returned(op, v, rank1, r) ==
    [op |-> op, ok |-> r.ok, err |-> r.err, v |-> v, rank1 |-> rank1,
     per_model |-> r.per_model, value |-> r.value, terms |-> r.terms]

\* LatentParameters.update refuses a vector whose length is not total_dim
DimensionError(op, v) ==
    [op |-> op, ok |-> FALSE, err |-> "DimensionError", v |-> v, rank1 |-> FALSE,
     per_model |-> <<>>, value |-> <<>>, terms |-> <<>>]

\* no thread evaluates the problem; run() was not called
NoThreads == [mode |-> "serial"]

NotRunning == [state |-> "IDLE", nit |-> 0, degraded |-> FALSE, mean |-> <<>>,
               info |-> <<>>, err |-> ""]

\* the index layout is frozen by its first use: an evaluation or prior_MVN
Frozen == out.op \in {"call", "loglike", "vb_call", "jacobian", "prior_MVN"}

Init ==
    /\ latent = <<>>
    /\ plist = InitPlist
    /\ model_errors = BothModelErrors
    /\ noise_models \in {add_all_noise_models(<<>>, ns) : ns \in NoiseSets}
    /\ prm_prior = EmptyDict
    /\ noise_prior = EmptyDict
    /\ nreg = 0
    /\ out = NoOut
    /\ conc = NoThreads
    /\ vb = NotRunning

\* problem.latent[g].add(me.parameter_list, l); a refused call changes nothing
Add(g, o, l) ==
    /\ ~Frozen
    /\ nreg < MaxCalls
    /\ total_dim(latent) + Dim(l) <= MaxDim
    /\ IF CanAdd(latent, g, o, l)
       THEN latent' = add(latent, g, o, l) /\ nreg' = nreg + 1
       ELSE UNCHANGED <<latent, nreg>>
    /\ UNCHANGED <<plist, model_errors, noise_models, prm_prior, noise_prior, out, conc, vb>>

\* problem.define_shared_latent_parameter_by_name(name)
DefineShared(name) ==
    /\ ~Frozen
    /\ nreg < MaxCalls
    /\ total_dim(latent) + Dim(name) <= MaxDim
    /\ LET r == define_shared_latent_parameter_by_name(latent, model_errors, name) IN
       /\ latent' = r.lat
       /\ nreg' = IF r.lat = latent THEN nreg ELSE nreg + 1
    /\ UNCHANGED <<plist, model_errors, noise_models, prm_prior, noise_prior, out, conc, vb>>

Evaluate(op, v, rank1, r) ==
    /\ IF Len(v) = total_dim(latent)
       THEN plist' = r.pl /\ out' = Returned(op, v, rank1, r)
       ELSE plist' = plist /\ out' = DimensionError(op, v)
    /\ UNCHANGED <<latent, model_errors, noise_models, prm_prior, noise_prior, nreg, conc, vb>>

\* InferenceProblem.__call__(v)
Call(v) ==
    LET r == InferenceProblem_call(latent, model_errors, v, plist) IN
    Evaluate("call", v, FALSE,
             [pl |-> r.pl, ok |-> TRUE, err |-> "", per_model |-> r.result,
              value |-> r.result, terms |-> <<>>])

\* InferenceProblem.loglike(v)
Loglike(v) == Evaluate("loglike", v, FALSE, loglike(latent, model_errors, noise_models, v, plist))

\* VariationalBayesProblem.__call__(v)
VBCall(v) == Evaluate("vb_call", v, FALSE, VB_call(latent, model_errors, noise_models, v, plist))

\* VariationalBayesProblem.jacobian(v)
Jacobian(v, rank1) ==
    Evaluate("jacobian", v, rank1, VB_jacobian(latent, model_errors, noise_models, v, plist, rank1))

Next ==
    \/ \E g \in GlobalNames, o \in Owners, l \in LocalNames : Add(g, o, l)
    \/ \E name \in LocalNames : DefineShared(name)
    \/ \E v \in TestVectors(total_dim(latent)) : Call(v)
    \/ \E v \in TestVectors(total_dim(latent)) : Loglike(v)
    \/ \E v \in TestVectors(total_dim(latent)) : VBCall(v)
    \/ \E v \in TestVectors(total_dim(latent)), rank1 \in BOOLEAN : Jacobian(v, rank1)

Spec == Init /\ [][Next]_vars

----------------------------------------------------------------------------
(* Properties *)

Linked(lat, g, o) == \E i \in 1..Len(lat[LatentIdx(lat, g)].links) : lat[LatentIdx(lat, g)].links[i][1] = o

AllRanges(lat) == Concat([k \in 1..Len(lat) |-> global_index_range(lat, lat[k].name)])

C1_Partition == AllRanges(latent) = [i \in 1..total_dim(latent) |-> i - 1]

C1_Stable ==
    \A k \in 1..Len(latent) :
        /\ k <= Len(latent')
        /\ latent'[k].name = latent[k].name
        /\ global_index_range(latent', latent[k].name) = global_index_range(latent, latent[k].name)

\* C1: the global_index_range() slices of all latent parameters, taken in
\* first-registration order, are contiguous, pairwise disjoint and cover
\* 0 .. total_dim - 1 exactly; a later registration never moves the slice of
\* a parameter registered before it.
C1_IndexRangesPartition == []C1_Partition /\ [][C1_Stable]_vars

\* a vector-valued latent parameter registered before a shared scalar one
C1_Witness ==
    /\ Len(latent) >= 2
    /\ latent[1].N = 2
    /\ Len(latent[2].links) = 2
    /\ global_index_range(latent, latent[2].name) = <<2>>


\* jacobian(v) got past update(v): out.per_model is its local `jac`
Assembled == out.op = "jacobian" /\ out.err # "DimensionError"

OwnerAt(i) == model_errors[i][2]

SensorMatrix(i, k) == out.per_model[i][2][k][2]

SensorName(i, k) == out.per_model[i][2][k][1]

\* the columns of matrix M at the global indices of latent parameter g
ColumnsOf(M, g) ==
    [r \in 1..Len(M) |-> [j \in 1..Len(global_index_range(latent, g)) |->
        M[r][global_index_range(latent, g)[j] + 1]]]

LocalBlock(i, k, l) == promote(d_model_error_d_named_parameter(OwnerAt(i), l, SensorName(i, k), out.rank1))

Negated(J) == [r \in 1..Len(J) |-> [j \in 1..Len(J[r]) |-> -J[r][j]]]

IsZero(M) == \A r \in 1..Len(M) : \A j \in 1..Len(M[r]) : M[r][j] = 0

\* C2: in the Jacobian assembled by jacobian(v), for every model error, every
\* sensor of it and every latent parameter with no link to that model error's
\* parameter list, all columns of the parameter's global index range are zero.
C2_ZeroPadding ==
    Assembled =>
        \A i \in 1..Len(out.per_model) : \A k \in 1..Len(out.per_model[i][2]) :
            \A n \in 1..Len(latent) :
                ~Linked(latent, latent[n].name, OwnerAt(i))
                    => IsZero(ColumnsOf(SensorMatrix(i, k), latent[n].name))

\* jacobian(v) returned, and some model error uses one latent parameter (its
\* columns are not zero) and does not use another
C2_Witness ==
    /\ out.op = "jacobian" /\ out.ok
    /\ \E i \in 1..Len(out.per_model) : \E n, m \in 1..Len(latent) :
        /\ ~Linked(latent, latent[n].name, OwnerAt(i))
        /\ Linked(latent, latent[m].name, OwnerAt(i))
        /\ ~IsZero(ColumnsOf(SensorMatrix(i, 1), latent[m].name))
        /\ latent[n].N = 2


\* the (model_error_key, sensor, rows) blocks that vector_contribution stacks,
\* per noise model, on the state the last jacobian(v) left
VectorBlocks == by_noise(noise_models, 1, evaluate_model_errors(model_errors, plist), FALSE)

\* C3: for every noise model variant registered, vector_contribution and
\* jacobian_contribution on the same state both succeed and stack the same
\* (model_error_key, sensor) blocks, with the same numbers of rows, in the
\* same order.
C3_RowOrder ==
    Assembled =>
        /\ VectorBlocks.ok
        /\ out.ok
        /\ out.terms = VectorBlocks.terms

\* the same, for the problems that register no UncorrelatedSensorNoise
C3_RowOrderWithJacobianContribution ==
    (Assembled /\ \A n \in 1..Len(noise_models) : noise_models[n][2].kind # "UncorrelatedSensorNoise")
        => /\ VectorBlocks.ok
           /\ out.ok
           /\ out.terms = VectorBlocks.terms

\* the rows each noise model returns are the per-sensor matrices of its blocks, stacked
StackedOnly ==
    out.ok =>
        \A n \in 1..Len(out.value) :
            out.value[n][2] =
                Concat([t \in 1..Len(out.terms[n][2]) |->
                    Get(Get(out.per_model, out.terms[n][2][t][1]), out.terms[n][2][t][2])])

Shape(i, k) ==
    /\ Len(SensorMatrix(i, k)) = Len(ModelErrorCall(OwnerAt(i), plist)[k][2])
    /\ \A r \in 1..Len(SensorMatrix(i, k)) : Len(SensorMatrix(i, k)[r]) = total_dim(latent)

\* C10: each sensor's matrix has one row per residual of the sensor and
\* total_dim columns; for every (local_name, global_name) link of the sensor's
\* model error the columns of global_name's index range equal the negated
\* local block of local_name, a rank-1 block being one column; the noise
\* models only stack rows.
C10_EveryLinkCopied ==
    Assembled =>
        /\ \A i \in 1..Len(out.per_model) : \A k \in 1..Len(out.per_model[i][2]) :
            /\ Shape(i, k)
            /\ \A p \in 1..Len(latent_names(latent, OwnerAt(i))) :
                LET pair == latent_names(latent, OwnerAt(i))[p] IN
                ColumnsOf(SensorMatrix(i, k), pair[2]) = Negated(LocalBlock(i, k, pair[1]))
        /\ StackedOnly

\* pair p is the last link of its model error to its global name
LastLink(pairs, p) == \A q \in (p + 1)..Len(pairs) : pairs[q][2] # pairs[p][2]

\* what jacobian() does instead: for every global name linked to the sensor's
\* model error, the columns of its index range equal the negated local block
\* of the last (local_name, global_name) link of that model error in
\* latent_names order; the blocks of earlier links to the same global name
\* are overwritten, not added.
C10_LastLinkCopied ==
    Assembled =>
        /\ \A i \in 1..Len(out.per_model) : \A k \in 1..Len(out.per_model[i][2]) :
            /\ Shape(i, k)
            /\ \A p \in 1..Len(latent_names(latent, OwnerAt(i))) :
                LET pairs == latent_names(latent, OwnerAt(i)) IN
                LastLink(pairs, p) =>
                    ColumnsOf(SensorMatrix(i, k), pairs[p][2]) = Negated(LocalBlock(i, k, pairs[p][1]))
        /\ StackedOnly

\* jacobian(v) returned rank-1 blocks for a model error that links a vector
\* and a scalar latent parameter, one of them shared
C10_Witness ==
    /\ out.op = "jacobian" /\ out.ok /\ out.rank1
    /\ \E n, m \in 1..Len(latent) :
        /\ latent[n].N = 2 /\ latent[m].N = 1 /\ Len(latent[m].links) = 2
        /\ Linked(latent, latent[n].name, "me2") /\ Linked(latent, latent[m].name, "me2")
        /\ Linked(latent, latent[m].name, "me1")


\* an evaluation entry point ran with a vector of the right length
Evaluated == out.op \in {"call", "loglike", "vb_call", "jacobian"} /\ out.err # "DimensionError"

\* what entry point op returns for v on a problem whose parameters were never
\* updated before
Fresh(op, v, rank1) ==
    IF op = "call"
    THEN LET r == InferenceProblem_call(latent, model_errors, v, InitPlist) IN
         [pl |-> r.pl, ok |-> TRUE, err |-> "", per_model |-> r.result,
          value |-> r.result, terms |-> <<>>]
    ELSE IF op = "loglike" THEN loglike(latent, model_errors, noise_models, v, InitPlist)
    ELSE IF op = "vb_call" THEN VB_call(latent, model_errors, noise_models, v, InitPlist)
    ELSE VB_jacobian(latent, model_errors, noise_models, v, InitPlist, rank1)

\* link i of latent parameter k is the only link to its local parameter
OnlyLinkTo(k, i) ==
    \A k2 \in 1..Len(latent) : \A i2 \in 1..Len(latent[k2].links) :
        latent[k2].links[i2] = latent[k].links[i] => (k2 = k /\ i2 = i)

SliceOf(v, k) == [j \in 1..latent[k].N |-> At(v, global_index_range(latent, latent[k].name)[j])]

\* C7: in serialized use every evaluation entry point pushes v into the
\* linked local parameters before any model error is invoked: after any
\* sequence of evaluations the linked local parameters hold the slices of the
\* latest v, and the parameter state and the result are those of evaluating
\* v on a fresh problem, whatever was evaluated before.
C7_FunctionOfVector ==
    Evaluated =>
        /\ \A k \in 1..Len(latent) : \A i \in 1..Len(latent[k].links) :
            OnlyLinkTo(k, i) => plist[latent[k].links[i][1]][latent[k].links[i][2]] = SliceOf(out.v, k)
        /\ plist = Fresh(out.op, out.v, out.rank1).pl
        /\ out = Returned(out.op, out.v, out.rank1, Fresh(out.op, out.v, out.rank1))

\* loglike returned for the vector VecB on a problem with a latent parameter
\* shared by two local parameters
C7_Witness ==
    /\ Evaluated /\ out.op = "loglike" /\ out.ok
    /\ out.v = VecB(total_dim(latent))
    /\ plist # update(latent, VecA(total_dim(latent)), InitPlist)
    /\ \E k \in 1..Len(latent) : Len(latent[k].links) = 2

\* Scenario B: one global parameter shared by the "A" of both models, and a
\* private global parameter for the "B" of each; gA, gB1, gB2 are their
\* positions in registration order
ScenarioB(gA, gB1, gB2) ==
    /\ Len(latent) = 3 /\ {gA, gB1, gB2} = {1, 2, 3}
    /\ latent[gA].links \in {<<<<"me1", "A">>, <<"me2", "A">>>>, <<<<"me2", "A">>, <<"me1", "A">>>>}
    /\ latent[gB1].links = <<<<"me1", "B">>>>
    /\ latent[gB2].links = <<<<"me2", "B">>>>

\* model_error_1, model_error_2 and multi_me of tests/test_multiple_models.py,
\* on a hand-indexed vector prm[0..3]
model_error_1(prm) == [i \in 1..2 |-> At(prm, 0) * Xs("s1")[i] + At(prm, 1) - Data("me1", "s1")[i]]

model_error_2(prm) ==
    [i \in 1..2 |-> At(prm, 2) * Xs("s1")[i] + At(prm, 3) - Data("me2", "s1")[i]]
    \o [i \in 1..1 |-> At(prm, 2) * Xs("s2")[i] + At(prm, 3) - Data("me2", "s2")[i]]

multi_me(prm) == model_error_1(prm) \o model_error_2(prm)

\* the residuals of every model error, concatenated in registration order
JointResiduals(result) ==
    Concat([i \in 1..Len(result) |-> Concat([k \in 1..Len(result[i][2]) |-> result[i][2][k][2]])])

\* C4: with "A" shared by two model errors and a private "B" each (global
\* vector of length 3), the per-model residuals of problem(v), concatenated
\* in model-registration order, equal the flat evaluation multi_me of the
\* hand-built vector (A, B1, A, B2) taken from v.
C4_SharedParameter ==
    \A gA, gB1, gB2 \in 1..3 :
        (ScenarioB(gA, gB1, gB2) /\ out.op = "call" /\ out.ok) =>
            JointResiduals(out.value) = multi_me(<<out.v[gA], out.v[gB1], out.v[gA], out.v[gB2]>>)

\* problem(v) evaluated on scenario B, v = (1, 2, 3) after (9, 8, 7)
C4_Witness ==
    /\ \E gA, gB1, gB2 \in 1..3 : ScenarioB(gA, gB1, gB2)
    /\ out.op = "call" /\ out.ok /\ out.v = <<1, 2, 3>>
    /\ JointResiduals(out.value) # <<>>


----------------------------------------------------------------------------
(* SpecKeys: add_model_error and add_noise_model with explicit and          *)
(* automatic keys, on an empty problem.                                     *)

\* key arguments: None (the default), 0, 1, "noise1" and "k"
KeyArgs == {"None", IntKey(0), IntKey(1), NoiseKey(1), "k"}

NoiseObjects == {SingleSensorNoise, UncorrelatedSensorNoise({"s1"})}

InitKeys ==
    /\ latent = <<>>
    /\ plist = InitPlist
    /\ model_errors = <<>>
    /\ noise_models = <<>>
    /\ prm_prior = EmptyDict
    /\ noise_prior = EmptyDict
    /\ nreg = 0
    /\ out = NoOut
    /\ conc = NoThreads
    /\ vb = NotRunning

\* what add_model_error / add_noise_model returned (the key) or raised
Registered(op, r, obj) ==
    [NoOut EXCEPT !.op = op, !.ok = r.ok, !.err = IF r.ok THEN "" ELSE "AssertionError",
                  !.v = <<r.key>>, !.value = <<obj>>]

AddModelError(me, key) ==
    /\ Len(model_errors) < MaxModels
    /\ model_errors' = add_model_error(model_errors, me, key).reg
    /\ out' = Registered("add_model_error", add_model_error(model_errors, me, key), me)
    /\ UNCHANGED <<latent, plist, noise_models, prm_prior, noise_prior, nreg, conc, vb>>

AddNoiseModel(nm, key) ==
    /\ Len(noise_models) < MaxModels
    /\ noise_models' = add_noise_model(noise_models, nm, key).reg
    /\ out' = Registered("add_noise_model", add_noise_model(noise_models, nm, key), nm)
    /\ UNCHANGED <<latent, plist, model_errors, prm_prior, noise_prior, nreg, conc, vb>>

NextKeys ==
    \/ \E me \in Owners, key \in KeyArgs : AddModelError(me, key)
    \/ \E nm \in NoiseObjects, key \in KeyArgs : AddNoiseModel(nm, key)

SpecKeys == InitKeys /\ [][NextKeys]_vars

RegistryOf(op) == IF op = "add_model_error" THEN model_errors ELSE noise_models

\* after a successful call the registry maps the returned key to the object added
C5_ReturnedKeyMapsObject ==
    (out.op \in {"add_model_error", "add_noise_model"} /\ out.ok)
        => /\ Has(RegistryOf(out.op), out.v[1])
           /\ Get(RegistryOf(out.op), out.v[1]) = out.value[1]

\* no step removes or overwrites an entry, or changes the order of the keys
C5_NoOverwrite ==
    /\ \A i \in 1..Len(model_errors) : i <= Len(model_errors') /\ model_errors'[i] = model_errors[i]
    /\ \A i \in 1..Len(noise_models) : i <= Len(noise_models') /\ noise_models'[i] = noise_models[i]

\* a call whose resulting key is registered already fails and changes no registry
C5_FailsIfRegistered ==
    /\ (out'.op = "add_model_error" /\ Has(model_errors, out'.v[1]))
        => (~out'.ok /\ UNCHANGED <<model_errors, noise_models>>)
    /\ (out'.op = "add_noise_model" /\ Has(noise_models, out'.v[1]))
        => (~out'.ok /\ UNCHANGED <<model_errors, noise_models>>)

\* C5: over any sequence of add_model_error and add_noise_model calls with
\* explicit and automatic keys, a call whose resulting key is registered
\* already fails and leaves both registries as they were, no call overwrites
\* an entry, and after a successful call the registry maps the returned key
\* to the object just added.
C5_FailFastKeys ==
    []C5_ReturnedKeyMapsObject /\ [][C5_NoOverwrite /\ C5_FailsIfRegistered]_vars

\* an automatic key collided with an explicit key registered before it
C5_Witness ==
    /\ out.op = "add_noise_model" /\ ~out.ok /\ out.v = <<NoiseKey(1)>>
    /\ Keys(noise_models) = <<NoiseKey(1)>>
    /\ Len(model_errors) = 2


----------------------------------------------------------------------------
(* VariationalBayesProblem: priors *)

\* set_normal_prior(latent_name, mean, sd): [ok, prm_prior after the call]
set_normal_prior(lat, pp, latent_name, mean, sd) ==
    IF ~LatentHas(lat, latent_name)
    THEN [ok |-> FALSE, err |-> "RuntimeError", prior |-> pp]
    ELSE [ok |-> TRUE, err |-> "", prior |-> DictPut(pp, latent_name, <<mean, sd>>)]

\* set_noise_prior(name, gamma): [ok, noise_prior after the call]
set_noise_prior(nms, np, name, gamma) ==
    IF ~Has(nms, name)
    THEN [ok |-> FALSE, err |-> "RuntimeError", prior |-> np]
    ELSE [ok |-> TRUE, err |-> "", prior |-> DictPut(np, name, gamma)]

\* 1.0 / sd ** 2 as the fraction <<1, sd * sd>>
precision(sd) == <<1, sd * sd>>

\* np.diag(precs)
diag(precs) == [i \in 1..Len(precs) |-> [j \in 1..Len(precs) |-> IF i = j THEN precs[i] ELSE <<0, 1>>]]

\* mutant of prior_from: the entries of a latent parameter are put in front of
\* those collected so far
RECURSIVE prior_from_prepended(_, _, _, _, _)
prior_from_prepended(lat, pp, k, means, precs) ==
    IF k > Len(lat) THEN [ok |-> TRUE, err |-> "", name |-> "", means |-> means, precs |-> precs]
    ELSE IF ~DictHas(pp, lat[k].name)
    THEN [ok |-> FALSE, err |-> "RuntimeError", name |-> lat[k].name, means |-> <<>>, precs |-> <<>>]
    ELSE IF lat[k].N > 0 /\ pp[lat[k].name][2] = 0
    THEN [ok |-> FALSE, err |-> "ZeroDivisionError", name |-> "", means |-> <<>>, precs |-> <<>>]
    ELSE prior_from_prepended(lat, pp, k + 1,
                    [j \in 1..lat[k].N |-> pp[lat[k].name][1]] \o means,
                    [j \in 1..lat[k].N |-> precision(pp[lat[k].name][2])] \o precs)

\* the loop of prior_MVN from latent parameter k on
RECURSIVE prior_from(_, _, _, _, _)
prior_from(lat, pp, k, means, precs) ==
    IF k > Len(lat) THEN [ok |-> TRUE, err |-> "", name |-> "", means |-> means, precs |-> precs]
    ELSE IF ~DictHas(pp, lat[k].name)
    THEN [ok |-> FALSE, err |-> "RuntimeError", name |-> lat[k].name, means |-> <<>>, precs |-> <<>>]
    ELSE IF lat[k].N > 0 /\ pp[lat[k].name][2] = 0
    THEN [ok |-> FALSE, err |-> "ZeroDivisionError", name |-> "", means |-> <<>>, precs |-> <<>>]
    ELSE prior_from(lat, pp, k + 1,
                    means \o [j \in 1..lat[k].N |-> pp[lat[k].name][1]],
                    precs \o [j \in 1..lat[k].N |-> precision(pp[lat[k].name][2])])

\* prior_MVN(): MVN(means, np.diag(precs)), or the exception raised; `name`
\* is the latent parameter the message of the RuntimeError names
prior_MVN(lat, pp) ==
    LET r == prior_from(lat, pp, 1, <<>>, <<>>) IN
    [ok |-> r.ok, err |-> r.err, name |-> r.name, mean |-> r.means, precision |-> diag(r.precs)]

----------------------------------------------------------------------------
(* SpecPrior: latent registrations, set_normal_prior, set_noise_prior and   *)
(* prior_MVN.                                                               *)

\* the names given to set_normal_prior, and the (mean, sd) pairs
PriorNames == {"A", "B", "V", "B1", "B2"}

PriorArgs == {<<3, 2>>, <<5, 1>>, <<4, 0>>}

\* the keys given to set_noise_prior
NoisePriorKeys == {NoiseKey(0), NoiseKey(3)}

InitPrior ==
    /\ latent = <<>>
    /\ plist = InitPlist
    /\ model_errors = BothModelErrors
    /\ noise_models = add_all_noise_models(<<>>, <<UncorrelatedSensorNoise({"s1"})>>)
    /\ prm_prior = EmptyDict
    /\ noise_prior = EmptyDict
    /\ nreg = 0
    /\ out = NoOut
    /\ conc = NoThreads
    /\ vb = NotRunning

\* what set_normal_prior / set_noise_prior raised, if anything, for `name`
PriorSet(op, name, r) == [NoOut EXCEPT !.op = op, !.ok = r.ok, !.err = r.err, !.v = <<name>>]

SetNormalPrior(name, mean, sd) ==
    /\ prm_prior' = set_normal_prior(latent, prm_prior, name, mean, sd).prior
    /\ out' = PriorSet("set_normal_prior", name, set_normal_prior(latent, prm_prior, name, mean, sd))
    /\ UNCHANGED <<latent, plist, model_errors, noise_models, noise_prior, nreg, conc, vb>>

SetNoisePrior(name) ==
    /\ noise_prior' = set_noise_prior(noise_models, noise_prior, name, "Gamma").prior
    /\ out' = PriorSet("set_noise_prior", name, set_noise_prior(noise_models, noise_prior, name, "Gamma"))
    /\ UNCHANGED <<latent, plist, model_errors, noise_models, prm_prior, nreg, conc, vb>>

PriorMVN ==
    /\ out' = [NoOut EXCEPT !.op = "prior_MVN",
                            !.ok = prior_MVN(latent, prm_prior).ok,
                            !.err = prior_MVN(latent, prm_prior).err,
                            !.v = <<prior_MVN(latent, prm_prior).name>>,
                            !.value = <<prior_MVN(latent, prm_prior).mean,
                                        prior_MVN(latent, prm_prior).precision>>]
    /\ UNCHANGED <<latent, plist, model_errors, noise_models, prm_prior, noise_prior, nreg, conc, vb>>

NextPrior ==
    \/ \E o \in Owners, l \in LocalNames : Add("B1", o, l)
    \/ \E name \in LocalNames : DefineShared(name)
    \/ \E name \in PriorNames, a \in PriorArgs : SetNormalPrior(name, a[1], a[2])
    \/ \E name \in NoisePriorKeys : SetNoisePrior(name)
    \/ PriorMVN

SpecPrior == InitPrior /\ [][NextPrior]_vars

AllHavePriors == \A k \in 1..Len(latent) : DictHas(prm_prior, latent[k].name)

\* prior_MVN() succeeds exactly when every registered latent parameter has a
\* prior; otherwise it raises the error naming a latent parameter without one
\* and builds no prior
C9_PriorIffComplete ==
    out.op = "prior_MVN" =>
        /\ out.ok <=> AllHavePriors
        /\ ~AllHavePriors =>
            /\ out.err = "RuntimeError"
            /\ LatentHas(latent, out.v[1]) /\ ~DictHas(prm_prior, out.v[1])
            /\ out.value = <<<<>>, <<>>>>

\* set_normal_prior for an unregistered name and set_noise_prior for an
\* unregistered key fail and leave the stored priors unchanged
C9_SetFails ==
    /\ (out'.op = "set_normal_prior" /\ ~LatentHas(latent, out'.v[1]))
        => (~out'.ok /\ UNCHANGED <<prm_prior, noise_prior>>)
    /\ (out'.op = "set_noise_prior" /\ ~Has(noise_models, out'.v[1]))
        => (~out'.ok /\ UNCHANGED <<prm_prior, noise_prior>>)

\* C9: prior_MVN() succeeds exactly when every registered latent parameter
\* has a prior, and otherwise fails with the error naming a latent parameter
\* without one; set_normal_prior and set_noise_prior for unregistered names
\* fail and leave the stored priors unchanged.
C9_PriorsComplete == []C9_PriorIffComplete /\ [][C9_SetFails]_vars

\* the same, for priors whose sd is not 0
C9_NonZeroSd ==
    (\A n \in DOMAIN prm_prior : prm_prior[n][2] # 0) => C9_PriorIffComplete

C9_PriorsCompleteNonZeroSd == []C9_NonZeroSd /\ [][C9_SetFails]_vars

\* prior_MVN() returned a prior: its mean and its precision matrix
Built == out.op = "prior_MVN" /\ out.ok

PriorMean == out.value[1]

PriorPrecision == out.value[2]

\* C11: the prior built by prior_MVN() is aligned with the global vector
\* layout: the mean has length total_dim and the precision is total_dim x
\* total_dim; for every latent parameter with prior (mean, sd), every entry of
\* the mean in its global_index_range equals mean and every diagonal entry of
\* the precision there equals 1/sd^2; the off-diagonal entries are zero.
C11_PriorAligned ==
    Built =>
        /\ Len(PriorMean) = total_dim(latent)
        /\ Len(PriorPrecision) = total_dim(latent)
        /\ \A r \in 1..Len(PriorPrecision) :
            /\ Len(PriorPrecision[r]) = total_dim(latent)
            /\ \A c \in 1..Len(PriorPrecision[r]) : r # c => PriorPrecision[r][c][1] = 0
        /\ \A k \in 1..Len(latent) :
            LET rng == global_index_range(latent, latent[k].name)
                mean == prm_prior[latent[k].name][1]
                sd == prm_prior[latent[k].name][2]
            IN /\ Len(rng) = latent[k].N
               /\ \A j \in 1..Len(rng) :
                   /\ At(PriorMean, rng[j]) = mean
                   /\ At(At(PriorPrecision, rng[j]), rng[j]) = <<1, sd * sd>>

\* a prior was built for a vector-valued latent parameter registered before a
\* scalar one, with different means and standard deviations
C11_Witness ==
    /\ Built
    /\ Len(latent) >= 2
    /\ latent[1].N = 2
    /\ prm_prior[latent[1].name][1] # prm_prior[latent[2].name][1]
    /\ prm_prior[latent[1].name][2] # prm_prior[latent[2].name][2]


----------------------------------------------------------------------------
(* SpecConc: two threads, each running InferenceProblem.__call__ once, on   *)
(* one shared problem instance or on one instance each.  A thread may be    *)
(* preempted between two parameter writes of update() and between two       *)
(* model error calls.                                                       *)

Threads == {1, 2}

\* the vector thread t evaluates
VectorOf(t) == IF t = 1 THEN VecA(3) ELSE VecB(3)

\* scenario B: latent["B1"].add(p1, "B"); latent["B2"].add(p2, "B");
\* define_shared_latent_parameter_by_name("A")
ScenarioBLatent ==
    define_shared_latent_parameter_by_name(
        add(add(<<>>, "B1", "me1", "B"), "B2", "me2", "B"), BothModelErrors, "A").lat

\* mutant of parameter_lists_of: one set of parameter lists for every instance
parameter_lists_shared(i) == 1

\* ModelErrorInterface.__init__: the model errors of problem instance i own
\* parameter lists of their own
parameter_lists_of(i) == i

\* the problem instance thread t calls
InstanceOf(mode, t) == IF mode = "shared" THEN 1 ELSE t

\* the parameter writes of update(v), in order: <<owner, local name, value>>
update_writes(lat, v) ==
    Concat([k \in 1..Len(lat) |->
        [i \in 1..Len(lat[k].links) |->
            <<lat[k].links[i][1], lat[k].links[i][2],
              [j \in 1..lat[k].N |-> At(v, global_index_range(lat, lat[k].name)[j])]>>]])

InitConc ==
    /\ latent = ScenarioBLatent
    /\ plist = InitPlist
    /\ model_errors = BothModelErrors
    /\ noise_models = <<>>
    /\ prm_prior = EmptyDict
    /\ noise_prior = EmptyDict
    /\ nreg = 3
    /\ out = NoOut
    /\ conc \in {[mode |-> m,
                  pl |-> [i \in {1, 2} |-> InitPlist],
                  th |-> [t \in Threads |-> [pc |-> "update", k |-> 1, result |-> <<>>]]]
                 : m \in {"shared", "independent"}}
    /\ vb = NotRunning

\* thread t, inside self.latent.update(number_vector): one parameter write
ThreadWrite(t) ==
    LET w == update_writes(latent, VectorOf(t))
        k == conc.th[t].k
        i == parameter_lists_of(InstanceOf(conc.mode, t))
    IN /\ conc.th[t].pc = "update"
       /\ k <= Len(w)
       /\ conc' = [conc EXCEPT !.pl[i][w[k][1]][w[k][2]] = w[k][3],
                               !.th[t].k = IF k = Len(w) THEN 1 ELSE k + 1,
                               !.th[t].pc = IF k = Len(w) THEN "call" ELSE "update"]
       /\ UNCHANGED <<latent, plist, model_errors, noise_models, prm_prior, noise_prior, nreg, out, vb>>

\* thread t: result[key] = me() for the next model error
ThreadInvoke(t) ==
    LET k == conc.th[t].k
        i == parameter_lists_of(InstanceOf(conc.mode, t))
    IN /\ conc.th[t].pc = "call"
       /\ k <= Len(model_errors)
       /\ conc' = [conc EXCEPT !.th[t].result =
                                   Append(@, <<model_errors[k][1], ModelErrorCall(model_errors[k][2], conc.pl[i])>>),
                               !.th[t].k = k + 1,
                               !.th[t].pc = IF k = Len(model_errors) THEN "done" ELSE "call"]
       /\ UNCHANGED <<latent, plist, model_errors, noise_models, prm_prior, noise_prior, nreg, out, vb>>

NextConc == \E t \in Threads : ThreadWrite(t) \/ ThreadInvoke(t)

SpecConc == InitConc /\ [][NextConc]_vars

\* what problem(v) returns when nothing else touches the instance
Alone(t) == InferenceProblem_call(latent, model_errors, VectorOf(t), InitPlist).result

\* C6: two evaluations on independent problem instances never affect each
\* other: under every interleaving each model error result of each thread is
\* the one of evaluating its vector alone.  (On one shared instance an
\* interleaving exists in which a model error of the v1 evaluation reads the
\* parameters written by the update of the v2 evaluation: C6_Witness.)
C6_IndependentInstances ==
    conc.mode = "independent" =>
        \A t \in Threads : \A i \in 1..Len(conc.th[t].result) : conc.th[t].result[i] = Alone(t)[i]

\* shared instance: the first model error of the v1 evaluation returned the
\* residuals of the parameters that update(v2) wrote
C6_Witness ==
    /\ conc.mode = "shared"
    /\ conc.th[1].pc = "done"
    /\ conc.th[1].result[1] = <<IntKey(0), ModelErrorCall("me1", update(latent, VectorOf(2), InitPlist))>>
    /\ conc.th[1].result[1] # Alone(1)[1]


----------------------------------------------------------------------------
(* SpecVB: VariationalBayesProblem.run() on the scenario B problem.  The    *)
(* solver variational_bayes() follows the state machine of the design       *)
(* document: INIT, then LINEARIZE, UPDATE_PARAM, UPDATE_NOISE and           *)
(* CONVERGENCE_CHECK repeated until CONVERGED or MAX_ITER_REACHED.  The     *)
(* numbers of the closed-form updates are not modelled: the new mean is any *)
(* of a few vectors, and the convergence test and a singular covariance are *)
(* nondeterministic.                                                        *)

IterationCap == 3

\* the noise models of the problems that are run
VBNoiseSets ==
    { <<SingleSensorNoise>>,
      <<UncorrelatedNoiseTerm(<<<<"s2", IntKey(1)>>, <<"s1", IntKey(0)>>>>),
        UncorrelatedNoiseTerm(<<<<"s1", IntKey(1)>>>>)>>,
      <<UncorrelatedSensorNoise({"s1", "s2"})>> }

\* set_normal_prior for each (name, mean, sd) of `args`, in order
RECURSIVE set_all_normal_priors(_, _, _)
set_all_normal_priors(lat, pp, args) ==
    IF args = <<>> THEN pp
    ELSE set_all_normal_priors(
             lat, set_normal_prior(lat, pp, Head(args)[1], Head(args)[2], Head(args)[3]).prior,
             Tail(args))

\* the priors set before run(): complete ones, and one without a prior for B2
VBPriors ==
    { <<<<"A", 3, 2>>, <<"B1", 5, 1>>, <<"B2", 5, 1>>>>,
      <<<<"B2", 6, 2>>, <<"B1", 3, 1>>, <<"A", 4, 2>>>>,
      <<<<"A", 3, 2>>, <<"B1", 5, 1>>>> }

\* set_noise_prior for every noise model
all_noise_priors(nms) == [k \in {nms[i][1] : i \in 1..Len(nms)} |-> "Gamma"]

\* the means an update of the parameter posterior can produce
Means == {VecA(total_dim(latent)), VecB(total_dim(latent))}

Terminal == {"CONVERGED", "MAX_ITER_REACHED"}

\* the iteration cap of the solver
cap_reached(nit) == nit >= IterationCap

\* the result object: iteration count, convergence flag, posterior mean
Info(nit, converged, mean) == [nit |-> nit, converged |-> converged, mean |-> mean]

InitVB ==
    /\ latent = ScenarioBLatent
    /\ plist = InitPlist
    /\ model_errors = BothModelErrors
    /\ \E objs \in VBNoiseSets : noise_models = add_all_noise_models(<<>>, objs)
    /\ \E args \in VBPriors : prm_prior = set_all_normal_priors(latent, EmptyDict, args)
    /\ noise_prior = all_noise_priors(noise_models)
    /\ nreg = 3
    /\ out = NoOut
    /\ conc = NoThreads
    /\ vb = NotRunning

VBStep(next) ==
    /\ vb' = next
    /\ UNCHANGED <<latent, plist, model_errors, noise_models, prm_prior, noise_prior, nreg, out, conc>>

\* run(): MVN = self.prior_MVN(); the solver starts from it, unless
\* prior_MVN raised
Run ==
    /\ vb.state = "IDLE"
    /\ LET MVN == prior_MVN(latent, prm_prior) IN
       IF MVN.ok
       THEN VBStep([vb EXCEPT !.state = "INIT", !.mean = MVN.mean])
       ELSE VBStep([vb EXCEPT !.state = "NOT_STARTED", !.err = MVN.err])

\* INIT: the priors seed the posteriors
SolverInit ==
    /\ vb.state = "INIT"
    /\ VBStep([vb EXCEPT !.state = "LINEARIZE", !.nit = 0])

\* the residual and the Jacobian of the problem at the vector v
Residual(v) == VB_call(latent, model_errors, noise_models, v, plist)

Linearized(v) == VB_jacobian(latent, model_errors, noise_models, v, plist, FALSE)

\* LINEARIZE: problem(mean) and problem.jacobian(mean) push the current mean
\* into the local parameters and return Residual(mean) and Linearized(mean);
\* what one of them raises leaves the solver and run()
Linearize ==
    /\ vb.state = "LINEARIZE"
    /\ plist' = push_vector(latent, vb.mean, plist)
    /\ vb' = IF ~Residual(vb.mean).ok
             THEN [vb EXCEPT !.state = "RAISED", !.nit = @ + 1, !.err = Residual(vb.mean).err]
             ELSE IF ~Linearized(vb.mean).ok
             THEN [vb EXCEPT !.state = "RAISED", !.nit = @ + 1, !.err = Linearized(vb.mean).err]
             ELSE [vb EXCEPT !.state = "UPDATE_PARAM", !.nit = @ + 1]
    /\ UNCHANGED <<latent, model_errors, noise_models, prm_prior, noise_prior, nreg, out, conc>>

\* UPDATE_PARAM: the Gaussian update; a singular covariance is regularized
\* and remembered
UpdateParam ==
    /\ vb.state = "UPDATE_PARAM"
    /\ \E m \in Means, singular \in BOOLEAN :
           VBStep([vb EXCEPT !.state = "UPDATE_NOISE", !.mean = m,
                             !.degraded = @ \/ singular])

\* UPDATE_NOISE: the Gamma update
UpdateNoise ==
    /\ vb.state = "UPDATE_NOISE"
    /\ VBStep([vb EXCEPT !.state = "CONVERGENCE_CHECK"])

\* CONVERGENCE_CHECK: stop converged, stop at the cap, or loop
ConvergenceCheck ==
    /\ vb.state = "CONVERGENCE_CHECK"
    /\ \E small_change \in BOOLEAN :
           IF small_change /\ ~vb.degraded
           THEN VBStep([vb EXCEPT !.state = "CONVERGED",
                                  !.info = <<Info(vb.nit, TRUE, vb.mean)>>])
           ELSE IF cap_reached(vb.nit)
           THEN VBStep([vb EXCEPT !.state = "MAX_ITER_REACHED",
                                  !.info = <<Info(vb.nit, FALSE, vb.mean)>>])
           ELSE VBStep([vb EXCEPT !.state = "LINEARIZE"])

Solver == SolverInit \/ Linearize \/ UpdateParam \/ UpdateNoise \/ ConvergenceCheck

NextVB == Run \/ Solver

SpecVB == InitVB /\ [][NextVB]_vars

\* the iteration count stays within the cap; a terminal state carries one
\* result whose flag tells which terminal state it is and whose count is the
\* number of iterations done; before the end there is no result
Reported ==
    /\ vb.nit <= IterationCap
    /\ vb.state \in Terminal =>
           /\ vb.err = ""
           /\ Len(vb.info) = 1
           /\ vb.info[1].nit = vb.nit
           /\ vb.info[1].converged = (vb.state = "CONVERGED")
           /\ vb.state = "MAX_ITER_REACHED" => vb.nit = IterationCap
    /\ vb.state \notin Terminal => vb.info = <<>>

\* C8: the solver loop, once started (INIT), only ever leaves through
\* CONVERGED or MAX_ITER_REACHED and never by raising; the iteration count
\* never exceeds the iteration cap; the cap is reported by the result
\* (converged false, iteration count).
C8_SolverTerminates ==
    /\ Reported
    /\ vb.state # "RAISED"

\* the same, for the problems that register no UncorrelatedSensorNoise
C8_SolverTerminatesWithJacobianContribution ==
    (\A n \in 1..Len(noise_models) : noise_models[n][2].kind # "UncorrelatedSensorNoise")
        => Reported /\ vb.state # "RAISED"

\* the steps left to the solver at most: every step of the loop uses one up
StepsLeft ==
    CASE vb.state = "INIT" -> 4 * IterationCap + 1
      [] vb.state = "LINEARIZE" -> 4 * (IterationCap - vb.nit)
      [] vb.state = "UPDATE_PARAM" -> 4 * (IterationCap - vb.nit) + 3
      [] vb.state = "UPDATE_NOISE" -> 4 * (IterationCap - vb.nit) + 2
      [] vb.state = "CONVERGENCE_CHECK" -> 4 * (IterationCap - vb.nit) + 1
      [] OTHER -> 0

\* the loop is bounded: each solver step decreases StepsLeft, which is never
\* negative
C8_LoopBounded ==
    /\ [](StepsLeft >= 0)
    /\ [][vb.state # "IDLE" => StepsLeft' < StepsLeft]_vars

\* the cap was reached after a regularized singular covariance
C8_Witness ==
    /\ vb.state = "MAX_ITER_REACHED"
    /\ vb.degraded
    /\ vb.info = <<Info(IterationCap, FALSE, vb.mean)>>
    /\ plist # InitPlist

====
